---- MODULE Spec2Model ----
(***************************************************************************)
(* Model of the card Matcher of whos-that-pokemon                          *)
(* (src/pyscript/card_matcher.py): catalog loading, the two-component      *)
(* perceptual fingerprint, the weighted Hamming match distance and the     *)
(* best-match selection with its confidence and quality label.             *)
(*                                                                         *)
(* Strings are sequences of one-character strings.  Python integers are    *)
(* unbounded, so int(s, 2) and int(s, 16) are represented by their         *)
(* canonical binary digits (no leading zeros, the empty sequence for 0).   *)
(* The weighted distance 0.6*a + 0.4*b and the threshold are kept exactly, *)
(* in tenths (6*a + 4*b); float('inf') is the value Inf.                   *)
(***************************************************************************)
EXTENDS Integers, Sequences, FiniteSets, TLC

VARIABLES cards, load_status, call, ret, hashed

\* The state of the programs around the matcher.  loads counts the
\* load_database executions of one run of the application; active_stream,
\* available_cameras and current_camera_index are the fields of
\* PokemonCardApp, live_streams the device streams acquired and not stopped,
\* handlers the camera coroutines that are suspended; downloads is the state
\* of each download_card task of the scraper and awaiting the position of
\* download_cards.
VARIABLES loads, active_stream, live_streams, handlers, available_cameras,
          current_camera_index, downloads, awaiting

appVars == <<loads, active_stream, live_streams, handlers, available_cameras,
             current_camera_index, downloads, awaiting>>

vars == <<cards, load_status, call, ret, hashed, appVars>>

\* Python's None where a stream or a position is expected
None == 0

\* no application and no scraper is running
AppIdle ==
    /\ loads = 0
    /\ active_stream = None
    /\ live_streams = {}
    /\ handlers = << >>
    /\ available_cameras = 0
    /\ current_camera_index = 0
    /\ downloads = << >>
    /\ awaiting = None


\* ---------------------------------------------------------------- bounds
\* longest card list of a catalog file
MaxCards == 2

\* ------------------------------------------------------- program constants
HASH_SIZE == 8
HashBits == 64
HexWidth == 16
NumParts == 2
WeightAverage == 6
WeightDifference == 4
Inf == 1000000
TopN == 3
DefaultThreshold == 240

\* ------------------------------------------------------- string primitives
HexChars == <<"0", "1", "2", "3", "4", "5", "6", "7",
              "8", "9", "a", "b", "c", "d", "e", "f">>

Max2(a, b) == IF a >= b THEN a ELSE b

Min2(a, b) == IF a <= b THEN a ELSE b

\* n copies of the character ch
Rep(ch, n) == [i \in 1..n |-> ch]

\* str.zfill(w): pad with "0" on the left up to width w, never truncate
ZFill(s, w) == IF Len(s) >= w THEN s ELSE Rep("0", w - Len(s)) \o s

\* index of the first character that is not "0", Len(s)+1 when there is none
RECURSIVE FirstNonZero(_, _)
FirstNonZero(s, i) ==
    IF i > Len(s) THEN i
    ELSE IF s[i] # "0" THEN i
    ELSE FirstNonZero(s, i + 1)

\* the value of a digit string: its digits without leading zeros
StripZeros(s) == SubSeq(s, FirstNonZero(s, 1), Len(s))

IsHexChar(ch) == \E k \in 1..16 : HexChars[k] = ch

HexVal(ch) == (CHOOSE k \in 1..16 : HexChars[k] = ch) - 1

\* the four binary digits of a nibble value
NibbleBits(v) ==
    << IF (v \div 8) % 2 = 1 THEN "1" ELSE "0",
       IF (v \div 4) % 2 = 1 THEN "1" ELSE "0",
       IF (v \div 2) % 2 = 1 THEN "1" ELSE "0",
       IF v % 2 = 1 THEN "1" ELSE "0" >>

BitVal(ch) == IF ch = "1" THEN 1 ELSE 0

\* int(s, 16) raises ValueError on an empty string or a non-hex character
IsHex(s) == Len(s) > 0 /\ \A i \in 1..Len(s) : IsHexChar(s[i])

RECURSIVE HexToBits(_)
HexToBits(s) ==
    IF Len(s) = 0 THEN << >>
    ELSE NibbleBits(HexVal(Head(s))) \o HexToBits(Tail(s))

\* int(s, 16), as canonical binary digits
IntOfHex(s) == StripZeros(HexToBits(s))

\* int(s, 2), as canonical binary digits
IntOfBin(s) == StripZeros(s)

\* bin(n)[2:]
Bin(n) == IF Len(n) = 0 THEN <<"0">> ELSE n

RECURSIVE BitsToHex(_)
BitsToHex(b) ==
    IF Len(b) = 0 THEN << >>
    ELSE <<HexChars[8 * BitVal(b[1]) + 4 * BitVal(b[2])
                    + 2 * BitVal(b[3]) + BitVal(b[4]) + 1]>>
         \o BitsToHex(SubSeq(b, 5, Len(b)))

\* hex(n)[2:]
Hex(n) ==
    IF Len(n) = 0 THEN <<"0">>
    ELSE BitsToHex(Rep("0", (4 - (Len(n) % 4)) % 4) \o n)

\* ------------------------------------------------------------ fingerprints
\* An image as the matcher sees it: ok is FALSE when cv2.cvtColor raises
\* (not an image); g8 is cv2.resize(gray, (8, 8)) and g9 is
\* cv2.resize(gray, (9, 8)), both indexed [row, column].
MkImage(ok, g8, g9) == [ok |-> ok, g8 |-> g8, g9 |-> g9]

Rows == 1..HASH_SIZE

Cols8 == 1..HASH_SIZE

Cols9 == 1..(HASH_SIZE + 1)

RECURSIVE SumSeq(_)
SumSeq(s) == IF Len(s) = 0 THEN 0 ELSE Head(s) + SumSeq(Tail(s))

\* the grid flattened row-major, as a sequence of HASH_SIZE*HASH_SIZE cells
Flatten(g, w) ==
    [i \in 1..(HASH_SIZE * w) |-> g[((i - 1) \div w) + 1, ((i - 1) % w) + 1]]

\* compute_average_hash: one bit per cell, set when the cell exceeds the mean
compute_average_hash(image) ==
    IF ~image.ok THEN << >>
    ELSE LET flat == Flatten(image.g8, HASH_SIZE)
             total == SumSeq(flat)
             hash_str == [i \in 1..Len(flat) |->
                            IF flat[i] * Len(flat) > total THEN "1" ELSE "0"]
         IN  ZFill(Hex(IntOfBin(hash_str)), HexWidth)

\* compute_difference_hash: one bit per cell, set when it exceeds its left
\* neighbour
compute_difference_hash(image) ==
    IF ~image.ok THEN << >>
    ELSE LET hash_str == [i \in 1..(HASH_SIZE * HASH_SIZE) |->
                 LET r == ((i - 1) \div HASH_SIZE) + 1
                     c == ((i - 1) % HASH_SIZE) + 1
                 IN  IF image.g9[r, c + 1] > image.g9[r, c] THEN "1" ELSE "0"]
         IN  ZFill(Hex(IntOfBin(hash_str)), HexWidth)

\* the fingerprint of the previous direct call is reused when there is one
compute_image_hash_Cached(image) ==
    IF call.op = "compute_image_hash" /\ Len(call.h1.chars) > 0
    THEN call.h1.chars
    ELSE LET avg_hash == compute_average_hash(image)
             dhash == compute_difference_hash(image)
         IN  IF Len(avg_hash) = 0 \/ Len(dhash) = 0 THEN << >>
             ELSE avg_hash \o <<":">> \o dhash

\* compute_image_hash: "<avg>:<dhash>", or None (the empty string here, which
\* is equally falsy at the only place the result is tested)
compute_image_hash(image) ==
    LET avg_hash == compute_average_hash(image)
        dhash == compute_difference_hash(image)
    IN  IF Len(avg_hash) = 0 \/ Len(dhash) = 0 THEN << >>
        ELSE avg_hash \o <<":">> \o dhash

\* A JSON / Python value that hash_difference may receive: a string
\* (str = TRUE, its characters in chars) or not a string (null, a number).
StrVal(s) == [str |-> TRUE, chars |-> s]

NotAString == [str |-> FALSE, chars |-> << >>]

\* s.split(':'): the components between the separators, at least one
RECURSIVE Split(_)
Split(s) ==
    LET RECURSIVE FirstSep(_)
        FirstSep(i) == IF i > Len(s) THEN 0
                       ELSE IF s[i] = ":" THEN i
                       ELSE FirstSep(i + 1)
        k == FirstSep(1)
    IN  IF k = 0 THEN <<s>>
        ELSE <<SubSeq(s, 1, k - 1)>> \o Split(SubSeq(s, k + 1, Len(s)))

\* counts only the positions set in x and clear in y
ZipDiff_OneSided(x, y) ==
    LET n == Min2(Len(x), Len(y))
    IN  Cardinality({i \in 1..n : x[i] = "1" /\ y[i] = "0"})

\* sum(c1 != c2 for c1, c2 in zip(x, y)): zip stops at the shorter string
ZipDiff(x, y) ==
    LET n == Min2(Len(x), Len(y))
    IN  Cardinality({i \in 1..n : x[i] # y[i]})

\* the second operand is not zero-padded to the full width
hamming_distance_NoPad(hash1_hex, hash2_hex) ==
    IF ~IsHex(hash1_hex) \/ ~IsHex(hash2_hex) THEN Inf
    ELSE LET hash1_bin == ZFill(Bin(IntOfHex(hash1_hex)), HashBits)
             hash2_bin == Bin(IntOfHex(hash2_hex))
         IN  ZipDiff(hash1_bin, hash2_bin)

\* a component that does not parse is taken for the value 0
hamming_distance_ErrorIsZero(hash1_hex, hash2_hex) ==
    LET Value(h) == IF IsHex(h) THEN IntOfHex(h) ELSE << >>
    IN  ZipDiff(ZFill(Bin(Value(hash1_hex)), HashBits),
                ZFill(Bin(Value(hash2_hex)), HashBits))

\* hamming_distance: ValueError from int(., 16) is caught and gives inf
hamming_distance(hash1_hex, hash2_hex) ==
    IF ~IsHex(hash1_hex) \/ ~IsHex(hash2_hex) THEN Inf
    ELSE LET hash1_bin == ZFill(Bin(IntOfHex(hash1_hex)), HashBits)
             hash2_bin == ZFill(Bin(IntOfHex(hash2_hex)), HashBits)
         IN  ZipDiff(hash1_bin, hash2_bin)

\* the two weights applied to the wrong components
WeightedSum_Swapped(avg_dist, diff_dist) ==
    IF avg_dist = Inf \/ diff_dist = Inf THEN Inf
    ELSE avg_dist * WeightDifference + diff_dist * WeightAverage

\* inf * w + x * w' = inf; otherwise the weighted sum, in tenths
WeightedSum(avg_dist, diff_dist) ==
    IF avg_dist = Inf \/ diff_dist = Inf THEN Inf
    ELSE avg_dist * WeightAverage + diff_dist * WeightDifference

\* only too few components are rejected
PartsMismatch_TooFew(h1_parts, h2_parts) ==
    Len(h1_parts) < NumParts \/ Len(h2_parts) < NumParts

\* line 126: either side does not have exactly NumParts components
PartsMismatch(h1_parts, h2_parts) ==
    Len(h1_parts) # NumParts \/ Len(h2_parts) # NumParts

\* hash_difference: the match distance of two fingerprints, in tenths.
\* A non-string argument raises AttributeError at .split, caught as inf.
hash_difference(hash1, hash2) ==
    IF ~hash1.str \/ ~hash2.str THEN Inf
    ELSE LET h1_parts == Split(hash1.chars)
             h2_parts == Split(hash2.chars)
         IN  IF PartsMismatch(h1_parts, h2_parts) THEN Inf
             ELSE WeightedSum(hamming_distance(h1_parts[1], h2_parts[1]),
                              hamming_distance(h1_parts[2], h2_parts[2]))

\* ------------------------------------------------------------ the catalog
\* A card record of pokemon_cards.json as db_builder.create_database writes
\* it: name and number are always present, image_hash only when a hash was
\* computed.  number is the position of the card in the file.
Card(number, has_hash, image_hash) ==
    [number |-> number, has_hash |-> has_hash, image_hash |-> image_hash]

\* a list of fewer than two cards is taken for an empty one
load_database_ShortIsEmpty(old_cards, file) ==
    IF file.kind # "ok" THEN [cards |-> old_cards, ok |-> FALSE]
    ELSE IF Len(file.cards) < 2 THEN [cards |-> file.cards, ok |-> FALSE]
    ELSE [cards |-> file.cards, ok |-> TRUE]

\* load_database: the new self.cards and the value returned.  self.cards is
\* assigned only after the file was read, parsed and found to be an object
\* with a 'cards' key.
load_database(old_cards, file) ==
    IF file.kind = "missing" THEN [cards |-> old_cards, ok |-> FALSE]
    ELSE IF file.kind \in {"unreadable", "invalid_json"}
         THEN [cards |-> old_cards, ok |-> FALSE]
    ELSE IF file.kind \in {"not_object", "no_cards_key"}
         THEN [cards |-> old_cards, ok |-> FALSE]
    ELSE IF Len(file.cards) = 0 THEN [cards |-> file.cards, ok |-> FALSE]
    ELSE [cards |-> file.cards, ok |-> TRUE]

\* ---------------------------------------------------------------- matching
\* a zero-confidence record in place of None
ZeroConfidenceRecord ==
    [none |-> FALSE, number |-> 0, confidence |-> 0, difference |-> 0,
     match_quality |-> "Low", top |-> << >>]

\* the value None returned by find_matching_card
NoMatch ==
    [none |-> TRUE, number |-> 0, confidence |-> 0, difference |-> 0,
     match_quality |-> "", top |-> << >>]

\* an equal distance replaces the best match as well: the last of a tie wins
IsNewMinimum_LastWins(diff, min_diff) == diff <= min_diff

\* line 175: a strictly smaller distance replaces the best match so far
IsNewMinimum(diff, min_diff) == diff < min_diff

\* line 173: the entry is kept when its distance is finite
IsComparable(diff) == diff # Inf

\* the loop over self.cards (lines 168-177), from card i on; best_match is
\* the position of the best card so far, 0 for None
RECURSIVE ScanCards(_, _, _, _, _, _)
ScanCards(cs, card_hash, i, best_match, min_diff, all_matches) ==
    IF i > Len(cs)
    THEN [best_match |-> best_match, min_diff |-> min_diff,
          all_matches |-> all_matches]
    ELSE IF ~cs[i].has_hash
         THEN ScanCards(cs, card_hash, i + 1, best_match, min_diff, all_matches)
    ELSE LET diff == hash_difference(StrVal(card_hash), cs[i].image_hash)
         IN  IF IsComparable(diff)
             THEN ScanCards(cs, card_hash, i + 1,
                            IF IsNewMinimum(diff, min_diff) THEN i ELSE best_match,
                            IF IsNewMinimum(diff, min_diff) THEN diff ELSE min_diff,
                            Append(all_matches, [card |-> i, diff |-> diff]))
             ELSE ScanCards(cs, card_hash, i + 1, best_match, min_diff, all_matches)

\* an entry is put before the entries of the same distance
RECURSIVE SortByDiff_Unstable(_)
SortByDiff_Unstable(ms) ==
    IF Len(ms) = 0 THEN << >>
    ELSE LET rest == SortByDiff_Unstable(SubSeq(ms, 1, Len(ms) - 1))
             x == ms[Len(ms)]
             k == Cardinality({j \in 1..Len(rest) : rest[j].diff < x.diff})
         IN  SubSeq(rest, 1, k) \o <<x>> \o SubSeq(rest, k + 1, Len(rest))

\* list.sort(key=lambda x: x[1]): stable, ascending by distance
RECURSIVE SortByDiff(_)
SortByDiff(ms) ==
    IF Len(ms) = 0 THEN << >>
    ELSE LET rest == SortByDiff(SubSeq(ms, 1, Len(ms) - 1))
             x == ms[Len(ms)]
             k == Cardinality({j \in 1..Len(rest) : rest[j].diff <= x.diff})
         IN  SubSeq(rest, 1, k) \o <<x>> \o SubSeq(rest, k + 1, Len(rest))

\* the distance ratio itself is clamped, not its complement
Confidence_OfDistance(min_diff, threshold) ==
    Max2(0, Min2(threshold, min_diff))

\* the lower clamp left out
Confidence_NoFloor(min_diff, threshold) ==
    Min2(threshold, threshold - min_diff)

\* max(0, min(1.0, 1.0 - min_diff / threshold)), multiplied by threshold
Confidence(min_diff, threshold) ==
    Max2(0, Min2(threshold, threshold - min_diff))

\* the comparison made inclusive
MatchQuality_Inclusive(min_diff, threshold) ==
    IF min_diff <= threshold THEN "High" ELSE "Low"

\* "High" if min_diff < threshold else "Low"
MatchQuality(min_diff, threshold) ==
    IF min_diff < threshold THEN "High" ELSE "Low"

\* find_matching_card(img_array, threshold); threshold in tenths.  A zero
\* threshold raises ZeroDivisionError, which the handler turns into None.
find_matching_card(cs, image, threshold) ==
    IF Len(cs) = 0 THEN NoMatch
    ELSE LET card_hash == compute_image_hash(image)
         IN  IF Len(card_hash) = 0 THEN NoMatch
             ELSE LET scan == ScanCards(cs, card_hash, 1, 0, Inf, << >>)
                      sorted == SortByDiff(scan.all_matches)
                      top == SubSeq(sorted, 1, Min2(TopN, Len(sorted)))
                  IN  IF scan.best_match = 0 THEN [NoMatch EXCEPT !.top = top]
                      ELSE IF threshold = 0 THEN NoMatch
                      ELSE [none |-> FALSE,
                            number |-> cs[scan.best_match].number,
                            confidence |-> Confidence(scan.min_diff, threshold),
                            difference |-> scan.min_diff,
                            match_quality |-> MatchQuality(scan.min_diff, threshold),
                            top |-> top]

\* ------------------------------------------------------------------ inputs
Zero16 == Rep("0", HexWidth)

One16 == Rep("0", HexWidth - 1) \o <<"1">>

Ones16 == Rep("f", HexWidth)

\* components that are not 16-hex-digit values
Short2 == <<"f", "f">>

Ones17 == Rep("f", HexWidth + 1)

Lead17 == <<"1">> \o Zero16

NonHex16 == <<"g">> \o Rep("0", HexWidth - 1)

Join(a, b) == a \o <<":">> \o b

ImageNames == {"flat", "flat_again", "left_dark", "dot", "edge", "not_image"}

\* the pixel content behind each image name
Pixels(name) ==
    LET flat8 == [r \in Rows, c \in Cols8 |-> 100]
        flat9 == [r \in Rows, c \in Cols9 |-> 100]
    IN  CASE name \in {"flat", "flat_again"} -> MkImage(TRUE, flat8, flat9)
          [] name = "left_dark" ->
                MkImage(TRUE, [r \in Rows, c \in Cols8 |-> IF c > 4 THEN 255 ELSE 0],
                              [r \in Rows, c \in Cols9 |-> IF c > 4 THEN 255 ELSE 0])
          [] name = "dot" ->
                MkImage(TRUE, [r \in Rows, c \in Cols8 |->
                                  IF r = HASH_SIZE /\ c = HASH_SIZE THEN 255 ELSE 100],
                              flat9)
          [] name = "edge" ->
                MkImage(TRUE, flat8,
                        [r \in Rows, c \in Cols9 |->
                            IF r = HASH_SIZE /\ c = HASH_SIZE + 1 THEN 255 ELSE 100])
          [] OTHER -> MkImage(FALSE, flat8, flat9)

\* thresholds a caller may configure, in tenths (24.0 is the default)
Thresholds == {6, DefaultThreshold}

\* hex components handed to hamming_distance
Components == {Zero16, One16, Ones16, Short2, Ones17, Lead17, NonHex16, << >>}

\* image_hash values a catalog entry may carry
HashValues ==
    { StrVal(Join(Zero16, Zero16)),
      StrVal(Join(One16, Zero16)),
      StrVal(Join(Zero16, One16)),
      StrVal(Join(Ones16, Zero16)),
      StrVal(Zero16),
      StrVal(Join(Join(Zero16, Zero16), Zero16)),
      StrVal(Join(NonHex16, Zero16)),
      StrVal(Join(Ones17, Ones16)),
      NotAString }

\* fingerprints handed to hash_difference directly
Fingerprints ==
    HashValues \cup { StrVal(Join(Ones16, Ones16)),
                      StrVal(Join(Short2, Zero16)),
                      StrVal(Join(Lead17, Zero16)),
                      StrVal(Join(<< >>, Zero16)) }

\* card lists of n cards; the card at position i has number i
CardLists(n) ==
    { [i \in 1..n |-> Card(i, e.has_hash[i], e.image_hash[i])] :
        e \in [has_hash : [1..n -> BOOLEAN], image_hash : [1..n -> HashValues]] }

\* a card without the image_hash key carries no value
WellFormedList(cs) ==
    \A i \in 1..Len(cs) : ~cs[i].has_hash => cs[i].image_hash = NotAString

CatalogFiles ==
    { [kind |-> k, cards |-> << >>] :
        k \in {"missing", "unreadable", "invalid_json", "not_object", "no_cards_key"} }
    \cup
    { [kind |-> "ok", cards |-> cs] :
        cs \in { l \in UNION { CardLists(n) : n \in 0..MaxCards } : WellFormedList(l) } }

\* ------------------------------------------------------------------ actions
Idle == [op |-> "none", image |-> "", threshold |-> 0, h1 |-> NotAString,
         h2 |-> NotAString, c1 |-> << >>, c2 |-> << >>, kind |-> ""]

NoRet == [NoMatch EXCEPT !.none = FALSE]

\* CardMatcher.__init__ up to line 12: no cards yet, load_database not run
Init ==
    /\ cards = << >>
    /\ load_status = "new"
    /\ call = Idle
    /\ ret = NoRet
    /\ hashed = {}
    /\ AppIdle

\* the load_database() call that ends __init__ (line 13)
LoadDatabase(file) ==
    /\ load_status = "new"
    /\ LET r == load_database(cards, file)
       IN  /\ cards' = r.cards
           /\ load_status' = IF r.ok THEN "loaded" ELSE "failed"
    /\ call' = [Idle EXCEPT !.op = "load_database", !.kind = file.kind]
    /\ ret' = NoRet
    /\ UNCHANGED hashed
    /\ UNCHANGED appVars

\* the catalog itself is sorted while the candidates are ranked
FindMatchingCard_ReordersCatalog(image, threshold) ==
    /\ load_status # "new"
    /\ call' = [Idle EXCEPT !.op = "find_matching_card", !.image = image,
                            !.threshold = threshold]
    /\ ret' = find_matching_card(cards, Pixels(image), threshold)
    /\ cards' = [i \in 1..Len(cards) |-> cards[Len(cards) + 1 - i]]
    /\ UNCHANGED <<load_status, hashed>>
    /\ UNCHANGED appVars

\* a find_matching_card call on the constructed matcher
FindMatchingCard(image, threshold) ==
    /\ load_status # "new"
    /\ call' = [Idle EXCEPT !.op = "find_matching_card", !.image = image,
                            !.threshold = threshold]
    /\ ret' = find_matching_card(cards, Pixels(image), threshold)
    /\ UNCHANGED <<cards, load_status, hashed>>
    /\ UNCHANGED appVars

Next ==
    \/ \E file \in CatalogFiles : LoadDatabase(file)
    \/ \E image \in ImageNames, threshold \in Thresholds :
          FindMatchingCard(image, threshold)

Spec == Init /\ [][Next]_vars

\* ------------------------------------------- the hashing functions on their own
\* catalog files used where the catalog is not what is examined
ProbeFiles ==
    { f \in CatalogFiles :
        \/ f.kind # "ok"
        \/ f.cards = <<Card(1, TRUE, StrVal(Join(Zero16, Zero16)))>> }

\* a direct hash_difference call
HashDifferenceCall(h1, h2) ==
    /\ load_status # "new"
    /\ call' = [Idle EXCEPT !.op = "hash_difference", !.h1 = h1, !.h2 = h2]
    /\ ret' = [NoRet EXCEPT !.difference = hash_difference(h1, h2)]
    /\ UNCHANGED <<cards, load_status, hashed>>
    /\ UNCHANGED appVars

\* a direct hamming_distance call
HammingDistanceCall(c1, c2) ==
    /\ load_status # "new"
    /\ call' = [Idle EXCEPT !.op = "hamming_distance", !.c1 = c1, !.c2 = c2]
    /\ ret' = [NoRet EXCEPT !.difference = hamming_distance(c1, c2)]
    /\ UNCHANGED <<cards, load_status, hashed>>
    /\ UNCHANGED appVars

\* a direct compute_image_hash call; hashed remembers every (image,
\* fingerprint) pair returned so far
ComputeImageHashCall(image) ==
    /\ load_status # "new"
    /\ LET fp == compute_image_hash(Pixels(image))
       IN  /\ call' = [Idle EXCEPT !.op = "compute_image_hash", !.image = image,
                                   !.h1 = StrVal(fp)]
           /\ hashed' = hashed \cup {<<image, fp>>}
    /\ ret' = NoRet
    /\ UNCHANGED <<cards, load_status>>
    /\ UNCHANGED appVars

NextDist ==
    \/ \E file \in ProbeFiles : LoadDatabase(file)
    \/ \E h1 \in Fingerprints, h2 \in Fingerprints : HashDifferenceCall(h1, h2)
    \/ \E c1 \in Components, c2 \in Components : HammingDistanceCall(c1, c2)

SpecDist == Init /\ [][NextDist]_vars

NextHash ==
    \/ \E file \in ProbeFiles : LoadDatabase(file)
    \/ \E image \in ImageNames : ComputeImageHashCall(image)
    \/ \E image \in ImageNames, threshold \in Thresholds :
          FindMatchingCard(image, threshold)

SpecHash == Init /\ [][NextHash]_vars

\* -------------------------------------------------------------- properties
IsFind == call.op = "find_matching_card"

\* the fingerprint of the image of the last find_matching_card call
QueryHash == compute_image_hash(Pixels(call.image))

\* the match distance of the card at position i from the query
Dist(i) ==
    IF cards[i].has_hash
    THEN hash_difference(StrVal(QueryHash), cards[i].image_hash)
    ELSE Inf

\* the positions of the cards with a finite distance from the query
Usable == {i \in 1..Len(cards) : Dist(i) # Inf}

\* C1: find_matching_card returns the entry whose match distance is the
\* minimum over the entries with a finite distance, and among the entries
\* at that minimum the one that comes first in catalog order.
C1_MinimumFirstWins ==
    (IsFind /\ Usable # {}) =>
        /\ ~ret.none
        /\ ret.number \in Usable
        /\ ret.difference = Dist(ret.number)
        /\ \A j \in Usable :
              /\ Dist(ret.number) <= Dist(j)
              /\ Dist(j) = Dist(ret.number) => ret.number <= j

\* two usable cards tie at the minimum and the earlier one was returned
C1_Witness ==
    /\ IsFind /\ ~ret.none
    /\ \E j \in Usable : j > ret.number /\ Dist(j) = ret.difference

\* C2: the confidence of a result is clamp(1 - d/threshold, 0, 1): within
\* [0, 1], 0 when d >= threshold, 1 when d <= 0 (confidence is kept
\* multiplied by the threshold, so 1 is call.threshold).
C2_ConfidenceClamped ==
    (IsFind /\ ~ret.none) =>
        LET d == ret.difference
            t == call.threshold
        IN  /\ d >= 0 /\ t > 0
            /\ \A j \in Usable : d <= Dist(j)
            /\ 0 <= ret.confidence /\ ret.confidence <= t
            /\ d >= t => ret.confidence = 0
            /\ d <= 0 => ret.confidence = t
            /\ (0 < d /\ d < t) => ret.confidence = t - d

\* a result whose distance exceeds the threshold, with confidence 0
C2_Witness ==
    /\ IsFind /\ ~ret.none
    /\ ret.difference > call.threshold
    /\ ret.confidence = 0

\* C3: the quality label is "High" exactly when the minimum distance is
\* strictly below the threshold, "Low" otherwise (also at d = threshold).
C3_QualityLabel ==
    (IsFind /\ ~ret.none) =>
        /\ ret.match_quality \in {"High", "Low"}
        /\ ret.match_quality = "High" <=> ret.difference < call.threshold

\* a result exactly at the threshold, labelled "Low"
C3_Witness ==
    /\ IsFind /\ ~ret.none
    /\ ret.difference = call.threshold
    /\ ret.match_quality = "Low"

\* C4: with an empty catalog, or when no entry has a fingerprint comparable
\* to the query, find_matching_card returns None, not a record.
C4_NoResultIsNone ==
    (IsFind /\ (Len(cards) = 0 \/ Usable = {})) => ret.none

\* a non-empty catalog none of whose entries is comparable, queried with a
\* valid image
C4_Witness ==
    /\ IsFind /\ ret.none
    /\ Len(cards) > 0 /\ Len(QueryHash) > 0
    /\ \E i \in 1..Len(cards) : cards[i].has_hash /\ cards[i].image_hash.str

\* the positions of the cards whose image_hash is a string that does not
\* split into exactly NumParts components
BadArity ==
    {i \in 1..Len(cards) :
        /\ cards[i].has_hash /\ cards[i].image_hash.str
        /\ Len(Split(cards[i].image_hash.chars)) # NumParts}

\* the catalog without the cards at the positions in skip
Without(skip) ==
    LET RECURSIVE Keep(_)
        Keep(i) == IF i > Len(cards) THEN << >>
                   ELSE IF i \in skip THEN Keep(i + 1)
                   ELSE <<cards[i]>> \o Keep(i + 1)
    IN  Keep(1)

\* C5: a fingerprint that does not split into exactly two components is at
\* infinite distance from every fingerprint, on either side of
\* hash_difference; in find_matching_card only that entry is excluded and
\* the result is the best of the remaining entries.
C5_ArityMismatchIsPerEntry ==
    IsFind =>
        /\ \A i \in BadArity :
              /\ Dist(i) = Inf
              /\ hash_difference(cards[i].image_hash, StrVal(QueryHash)) = Inf
              /\ \A j \in 1..Len(cards) :
                    /\ hash_difference(cards[i].image_hash, cards[j].image_hash) = Inf
                    /\ hash_difference(cards[j].image_hash, cards[i].image_hash) = Inf
        /\ LET rest == find_matching_card(Without(BadArity), Pixels(call.image),
                                          call.threshold)
           IN  /\ ret.none = rest.none
               /\ ret.number = rest.number
               /\ ret.difference = rest.difference
               /\ ret.confidence = rest.confidence
               /\ ret.match_quality = rest.match_quality

\* a card with a wrong component count comes first and a later card was
\* still returned as the match
C5_Witness ==
    /\ IsFind /\ ~ret.none
    /\ \E i \in BadArity : i < ret.number

\* a component that int(., 16) accepts
Parses(c) == IsHex(c)

\* a 64-bit component: exactly 16 hex digits
FullWidth(c) == IsHex(c) /\ Len(c) = HexWidth

\* a fingerprint of the canonical scheme: a string of two 16-digit components
ValidFingerprint(h) ==
    /\ h.str
    /\ Len(Split(h.chars)) = NumParts
    /\ \A k \in 1..NumParts : FullWidth(Split(h.chars)[k])

\* C6: a pair of components of different bit widths (one of them is not a
\* 16-hex-digit value) is treated as non-comparable: hamming_distance and
\* hash_difference return infinite distance for it.
C6_WidthMismatchIsInfinite ==
    /\ (call.op = "hamming_distance" /\ Parses(call.c1) /\ Parses(call.c2)
           /\ Len(call.c1) # Len(call.c2))
          => ret.difference = Inf
    /\ (call.op = "hash_difference" /\ call.h1.str /\ call.h2.str
           /\ Len(Split(call.h1.chars)) = NumParts
           /\ Len(Split(call.h2.chars)) = NumParts
           /\ \E k \in 1..NumParts :
                 /\ Parses(Split(call.h1.chars)[k])
                 /\ Parses(Split(call.h2.chars)[k])
                 /\ Len(Split(call.h1.chars)[k]) # Len(Split(call.h2.chars)[k]))
          => ret.difference = Inf

\* C8: hamming_distance and hash_difference are symmetric on valid
\* fingerprints and their components.
C8_Symmetric ==
    /\ (call.op = "hamming_distance" /\ FullWidth(call.c1) /\ FullWidth(call.c2))
          => /\ ret.difference # Inf
             /\ ret.difference = hamming_distance(call.c2, call.c1)
    /\ (call.op = "hash_difference" /\ ValidFingerprint(call.h1)
           /\ ValidFingerprint(call.h2))
          => /\ ret.difference # Inf
             /\ ret.difference = hash_difference(call.h2, call.h1)

\* two different valid fingerprints were compared, at a non-zero distance
C8_Witness ==
    /\ call.op = "hash_difference"
    /\ ValidFingerprint(call.h1) /\ ValidFingerprint(call.h2)
    /\ call.h1 # call.h2
    /\ ret.difference > 0 /\ ret.difference # Inf

\* the valid fingerprints at hand in a state: the query's and the catalog's
ValidAtHand ==
    {h \in {StrVal(QueryHash)} \cup {cards[i].image_hash : i \in 1..Len(cards)} :
        ValidFingerprint(h)}

\* C7: for every valid fingerprint f the Hamming distance of each component
\* with itself is 0 and hash_difference(f, f) is 0, so a query matched
\* against a catalog entry that stores the query's fingerprint comes out at
\* match distance 0.
C7_SelfDistanceZero ==
    IsFind =>
        /\ \A h \in ValidAtHand :
              /\ \A k \in 1..NumParts :
                    hamming_distance(Split(h.chars)[k], Split(h.chars)[k]) = 0
              /\ hash_difference(h, h) = 0
        /\ \A i \in 1..Len(cards) :
              (cards[i].has_hash /\ ValidFingerprint(cards[i].image_hash)
                 /\ cards[i].image_hash = StrVal(QueryHash))
              => (~ret.none /\ ret.difference = 0 /\ Dist(i) = 0)

\* the catalog stores the fingerprint of the queried image, which has set
\* bits, behind a card at a larger distance, and the match is at distance 0
C7_Witness ==
    /\ IsFind /\ ~ret.none /\ ret.difference = 0 /\ ret.number > 1
    /\ cards[ret.number].image_hash = StrVal(QueryHash)
    /\ QueryHash # Join(Zero16, Zero16)

C10_RefusesAfterLoadFailure ==
    load_status = "failed" =>
        /\ Len(cards) = 0
        /\ IsFind => ret.none

\* a valid image was queried on a matcher whose load failed
C10_Witness ==
    /\ load_status = "failed"
    /\ IsFind /\ Len(QueryHash) > 0
    /\ ret.none

\* ======================================================================
\* The Detector (src/pyscript/card_detector.py).  A contour is what the
\* cv2 calls of find_card_contour report about it: n_approx is
\* len(cv2.approxPolyDP(...)), approx the polygon itself, area is
\* cv2.contourArea and rect_w, rect_h the sides of cv2.minAreaRect.
\* Ratios are compared exactly, as fractions.
\* ======================================================================
\* longest contour list cv2.findContours returns
MaxContours == 2

\* largest canvas height handed to detect_card
MaxHeight == 12

\* EXPECTED_ASPECT_RATIO = 2.5 / 3.5 = RatioNum / RatioDen
RatioNum == 5
RatioDen == 7
\* ASPECT_RATIO_TOLERANCE = 0.2 = 1 / ToleranceDen
ToleranceDen == 5
\* MIN_CARD_AREA_PERCENT and MAX_CARD_AREA_PERCENT, in percent
MinAreaPercent == 10
MaxAreaPercent == 50
\* the factor 0.8 of calculate_card_dimensions = HeightNum / HeightDen
HeightNum == 4
HeightDen == 5
\* a card polygon has QuadLen vertices
QuadLen == 4

Abs(x) == IF x < 0 THEN -x ELSE x

\* int(x) of a non-negative quotient num / den
IntDiv(num, den) == num \div den

\* the width is rounded to the nearest integer instead of truncated
calculate_card_dimensions_Rounded(canvas_height) ==
    LET card_height == IntDiv(canvas_height * HeightNum, HeightDen)
    IN  [width |-> IntDiv(2 * card_height * RatioNum + RatioDen, 2 * RatioDen),
         height |-> card_height]

\* calculate_card_dimensions: int(canvas_height * 0.8), then
\* int(card_height * EXPECTED_ASPECT_RATIO)
calculate_card_dimensions(canvas_height) ==
    LET card_height == IntDiv(canvas_height * HeightNum, HeightDen)
    IN  [width |-> IntDiv(card_height * RatioNum, RatioDen),
         height |-> card_height]

Contour(n_approx, area, rect_w, rect_h, approx) ==
    [n_approx |-> n_approx, area |-> area, rect_w |-> rect_w,
     rect_h |-> rect_h, approx |-> approx]

\* polygons of any vertex count are let through
IsQuad_AtLeast(contour) == contour.n_approx >= QuadLen

\* line 86: the polygon approximation has exactly 4 vertices
IsQuad(contour) == contour.n_approx = QuadLen

\* line 91: area < min_card_area or area > max_card_area
AreaOutOfRange(area, image_area) ==
    \/ area * 100 < image_area * MinAreaPercent
    \/ area * 100 > image_area * MaxAreaPercent

\* line 101: a bounding rectangle without width or height
Degenerate(width, height) == width = 0 \/ height = 0

\* lines 103-106: abs(min/max - 2.5/3.5) > 0.2, cleared of denominators
RatioOutOfTolerance(width, height) ==
    LET mn == Min2(width, height)
        mx == Max2(width, height)
    IN  ToleranceDen * Abs(RatioDen * mn - RatioNum * mx) > RatioDen * mx

\* an equally large contour replaces the best one as well
IsLarger_OrEqual(area, best_area) == area >= best_area

\* line 113: area > cv2.contourArea(best_contour)
IsLarger(area, best_area) == area > best_area

\* the loop of find_card_contour (lines 81-119) from contour i on;
\* best_contour and best_approx are positions in contours, 0 for None
RECURSIVE ScanContours(_, _, _, _, _)
ScanContours(contours, image_area, i, best_contour, best_approx) ==
    IF i > Len(contours)
    THEN [contour |-> best_contour, approx |-> best_approx]
    ELSE LET c == contours[i]
             skip == ScanContours(contours, image_area, i + 1,
                                  best_contour, best_approx)
         IN  IF ~IsQuad(c) THEN skip
             ELSE IF AreaOutOfRange(c.area, image_area) THEN skip
             ELSE IF Degenerate(c.rect_w, c.rect_h) THEN skip
             ELSE IF RatioOutOfTolerance(c.rect_w, c.rect_h) THEN skip
             ELSE IF best_contour = 0 \/ IsLarger(c.area, contours[best_contour].area)
                  THEN ScanContours(contours, image_area, i + 1, i, i)
             ELSE skip

\* find_card_contour: (best_contour, best_approx) as positions, (0, 0) for
\* (None, None)
find_card_contour(contours, image_area) ==
    ScanContours(contours, image_area, 1, 0, 0)

\* the orders of 1..QuadLen
IndexOrders ==
    {p \in [1..QuadLen -> 1..QuadLen] : \A i, j \in 1..QuadLen : p[i] = p[j] => i = j}

\* corners.sum(axis=1)
CoordSums(corners) == [i \in 1..QuadLen |-> corners[i][1] + corners[i][2]]

\* the results np.argsort may give: any order with non-decreasing sums
Argsorts(coord_sums) ==
    {p \in IndexOrders :
        \A i \in 1..(QuadLen - 1) : coord_sums[p[i]] <= coord_sums[p[i + 1]]}

\* np.argsort on four elements is an insertion sort: equal sums keep their
\* input order
StableArgsort(coord_sums) ==
    CHOOSE p \in Argsorts(coord_sums) :
        \A i \in 1..(QuadLen - 1) :
            coord_sums[p[i]] = coord_sums[p[i + 1]] => p[i] < p[i + 1]

\* order_corners, given the result of np.argsort(coord_sums): top-left,
\* top-right, bottom-right, bottom-left
order_corners(corners, sorted_indices) ==
    LET top_left == corners[sorted_indices[1]]
        bottom_right == corners[sorted_indices[4]]
        is_titled_right ==
            corners[sorted_indices[2]][2] > corners[sorted_indices[3]][2]
        top_right == IF is_titled_right THEN corners[sorted_indices[3]]
                     ELSE corners[sorted_indices[2]]
        bottom_left == IF is_titled_right THEN corners[sorted_indices[2]]
                       ELSE corners[sorted_indices[3]]
    IN  <<top_left, top_right, bottom_right, bottom_left>>

\* a frame: its identity and shape
Frame(name, width, height) == [name |-> name, width |-> width, height |-> height]

\* the card image None
NoCard == [none |-> TRUE, width |-> 0, height |-> 0, corners |-> << >>]

\* cv2.warpPerspective(img, matrix, (card_width, card_height)): an image of
\* the size asked for, of the size of img when that size is empty
WarpPerspective(img, ordered_corners, card_width, card_height) ==
    IF card_width <= 0 \/ card_height <= 0
    THEN [none |-> FALSE, width |-> img.width, height |-> img.height,
          corners |-> ordered_corners]
    ELSE [none |-> FALSE, width |-> card_width, height |-> card_height,
          corners |-> ordered_corners]

\* create_debug_image: a copy of img with the polygon drawn on it
create_debug_image(img, approx) == [frame |-> img, outline |-> approx]

\* an empty card image in place of None
NoCardDetected_EmptyCard(img) ==
    [success |-> FALSE, debug |-> [frame |-> img, outline |-> << >>],
     card |-> [NoCard EXCEPT !.none = FALSE]]

\* line 208: return False, img, None
NoCardDetected(img) ==
    [success |-> FALSE, debug |-> [frame |-> img, outline |-> << >>],
     card |-> NoCard]

\* detect_card(img, canvas_height), contours being what cv2.findContours
\* finds in the edge map of img
detect_card(img, canvas_height, contours) ==
    LET dims == calculate_card_dimensions(canvas_height)
        best == find_card_contour(contours, img.height * img.width)
    IN  IF best.contour = 0 THEN NoCardDetected(img)
        ELSE LET best_approx == contours[best.approx].approx
                 ordered_corners ==
                     order_corners(best_approx, StableArgsort(CoordSums(best_approx)))
             IN  [success |-> TRUE,
                  debug |-> create_debug_image(img, best_approx),
                  card |-> WarpPerspective(img, ordered_corners,
                                           dims.width, dims.height)]

\* ---------------------------------------------------------- detector inputs
Frames == {Frame("frame_a", 10, 10), Frame("frame_b", 20, 10)}

\* an upright 5 x 7 rectangle with its top-left corner at (x, y), listed
\* from its top-right corner on
Rect57(x, y) == << <<x + 5, y>>, <<x + 5, y + 7>>, <<x, y + 7>>, <<x, y>> >>

Triangle == << <<0, 0>>, <<4, 0>>, <<0, 4>> >>

Pentagon == << <<0, 2>>, <<2, 0>>, <<4, 2>>, <<3, 4>>, <<1, 4>> >>

\* contours cv2.findContours may report
ContourKinds ==
    { Contour(4, 30, 5, 7, Rect57(0, 0)),
      Contour(4, 30, 7, 5, Rect57(1, 0)),
      Contour(4, 50, 5, 7, Rect57(2, 0)),
      Contour(4, 10, 5, 7, Rect57(3, 0)),
      Contour(4, 60, 5, 7, Rect57(4, 0)),
      Contour(4, 5, 5, 7, Rect57(0, 1)),
      Contour(4, 30, 0, 5, Rect57(1, 1)),
      Contour(4, 30, 5, 5, Rect57(2, 1)),
      Contour(3, 30, 5, 7, Triangle),
      Contour(5, 30, 5, 7, Pentagon) }

ContourLists ==
    UNION { [1..n -> ContourKinds] : n \in 0..MaxContours }

\* ----------------------------------------------------------- detector calls
\* the detector keeps no state between calls: a behaviour is one call, whose
\* arguments are drawn at the start
DetectorCall(fn, img, canvas_height, contours) ==
    [op |-> "pending", fn |-> fn, img |-> img, canvas_height |-> canvas_height,
     contours |-> contours]

InitDetect ==
    /\ cards = << >>
    /\ load_status = "new"
    /\ hashed = {}
    /\ AppIdle
    /\ ret = NoRet
    /\ \/ \E img \in Frames, canvas_height \in 1..MaxHeight, contours \in ContourLists :
             call = DetectorCall("detect_card", img, canvas_height, contours)
       \/ \E img \in Frames, contours \in ContourLists :
             call = DetectorCall("find_card_contour", img, 0, contours)

\* the detect_card call
DetectCard ==
    /\ call.op = "pending" /\ call.fn = "detect_card"
    /\ call' = [call EXCEPT !.op = "detect_card"]
    /\ ret' = detect_card(call.img, call.canvas_height, call.contours)
    /\ UNCHANGED <<cards, load_status, hashed>>
    /\ UNCHANGED appVars

\* the find_card_contour call, on the edge map of img
FindCardContour ==
    /\ call.op = "pending" /\ call.fn = "find_card_contour"
    /\ call' = [call EXCEPT !.op = "find_card_contour"]
    /\ ret' = find_card_contour(call.contours, call.img.height * call.img.width)
    /\ UNCHANGED <<cards, load_status, hashed>>
    /\ UNCHANGED appVars

NextDetect == DetectCard \/ FindCardContour

SpecDetect == InitDetect /\ [][NextDetect]_vars

\* -------------------------------------------------------- detector properties
\* the candidate filters, as the specification words them
PassesFilters(c, image_area) ==
    /\ c.n_approx = 4
    /\ 10 * c.area >= image_area /\ 2 * c.area <= image_area
    /\ c.rect_w # 0 /\ c.rect_h # 0
    /\ LET mn == IF c.rect_w < c.rect_h THEN c.rect_w ELSE c.rect_h
           mx == IF c.rect_w < c.rect_h THEN c.rect_h ELSE c.rect_w
       IN  /\ 35 * mn - 25 * mx <= 7 * mx
           /\ 25 * mx - 35 * mn <= 7 * mx

\* the positions of the contours of the call that pass every filter
Survivors ==
    {i \in 1..Len(call.contours) :
        PassesFilters(call.contours[i], call.img.width * call.img.height)}

\* C11: when no contour survives the filters detect_card returns
\* success = False, the input frame itself as debug image and no card; a
\* card is returned if and only if success is True.
C11_FailureIsNormalOutcome ==
    call.op = "detect_card" =>
        /\ Survivors = {} =>
              /\ ret.success = FALSE
              /\ ret.debug = [frame |-> call.img, outline |-> << >>]
              /\ ret.card.none
        /\ ~ret.card.none <=> ret.success

\* contours were found, none of them survived, and detection failed
C11_Witness ==
    /\ call.op = "detect_card"
    /\ Len(call.contours) > 0 /\ Survivors = {}
    /\ ~ret.success /\ ret.card.none

\* C12 as stated: the card of a successful detection is round(H * 0.8) high
\* and round(H * 0.8 * 2.5/3.5) wide.
C12_RoundedDimensions ==
    (call.op = "detect_card" /\ ret.success) =>
        /\ ret.card.height = (8 * call.canvas_height + 5) \div 10
        /\ ret.card.width = (8 * call.canvas_height + 7) \div 14

\* C12 amended: whenever both come out positive, the card of a successful
\* detection is floor(H * 0.8) high and floor(height * 2.5/3.5) wide: each
\* step is truncated, nothing is rounded.
C12_TruncatedDimensions ==
    (call.op = "detect_card" /\ ret.success /\ call.canvas_height >= 3) =>
        LET H == call.canvas_height
            h == ret.card.height
            w == ret.card.width
        IN  /\ h > 0 /\ w > 0
            /\ 5 * h <= 4 * H /\ 4 * H < 5 * (h + 1)
            /\ 7 * w <= 5 * h /\ 5 * h < 7 * (w + 1)

\* a successful detection whose width was truncated by more than a half
C12_Witness ==
    /\ call.op = "detect_card" /\ ret.success /\ call.canvas_height >= 3
    /\ 2 * (5 * ret.card.height - 7 * ret.card.width) >= 7

\* C18: find_card_contour returns a contour if and only if some contour
\* passes every filter, and the contour returned passes them all: 4
\* vertices, area within 10% to 50% of the image, a bounding rectangle with
\* non-zero sides and an aspect ratio within 0.2 of 2.5/3.5.
C18_ReturnedContourPassesFilters ==
    call.op = "find_card_contour" =>
        /\ ret.contour # 0 <=> Survivors # {}
        /\ ret.contour # 0 => ret.contour \in Survivors

\* a contour was returned from a list that also holds a rejected one
C18_Witness ==
    /\ call.op = "find_card_contour"
    /\ ret.contour \in Survivors
    /\ \E i \in 1..Len(call.contours) : i \notin Survivors

\* C19: the contour selected is the survivor of largest area, the first of
\* them in contour order when several are as large, and the polygon
\* returned with it is its own.
C19_LargestFirstWins ==
    (call.op = "find_card_contour" /\ Survivors # {}) =>
        /\ ret.contour \in Survivors
        /\ ret.approx = ret.contour
        /\ \A j \in Survivors :
              /\ call.contours[j].area <= call.contours[ret.contour].area
              /\ call.contours[j].area = call.contours[ret.contour].area
                    => ret.contour <= j

\* two survivors of the same area, the first one returned
C19_Witness ==
    /\ call.op = "find_card_contour" /\ ret.contour \in Survivors
    /\ \E j \in Survivors :
          /\ j > ret.contour
          /\ call.contours[j].area = call.contours[ret.contour].area

\* ---------------------------------------------------------- order_corners
\* corner coordinates run over 0..GridMax
GridMax == 3

GridPoints == (0..GridMax) \X (0..GridMax)

\* z component of (b - a) x (c - b)
Cross(a, b, c) ==
    (b[1] - a[1]) * (c[2] - b[2]) - (b[2] - a[2]) * (c[1] - b[1])

\* the turn made at each of the four vertices of q, walked in list order
Turns(q) ==
    { Cross(q[i], q[(i % QuadLen) + 1], q[((i + 1) % QuadLen) + 1]) : i \in 1..QuadLen }

\* four points that are the vertices of a convex quadrilateral, listed in
\* cyclic order (clockwise or counter-clockwise, from any vertex)
ConvexQuads ==
    {q \in [1..QuadLen -> GridPoints] :
        (\A t \in Turns(q) : t > 0) \/ (\A t \in Turns(q) : t < 0)}

\* an order_corners call: the corners and the result of np.argsort are
\* drawn at the start
InitCorners ==
    /\ cards = << >>
    /\ load_status = "new"
    /\ hashed = {}
    /\ AppIdle
    /\ ret = NoRet
    /\ \E q \in ConvexQuads :
          \E p \in Argsorts(CoordSums(q)) :
             call = [op |-> "pending", fn |-> "order_corners", corners |-> q,
                     sorted_indices |-> p]

OrderCorners ==
    /\ call.op = "pending" /\ call.fn = "order_corners"
    /\ call' = [call EXCEPT !.op = "order_corners"]
    /\ ret' = order_corners(call.corners, call.sorted_indices)
    /\ UNCHANGED <<cards, load_status, hashed>>
    /\ UNCHANGED appVars

NextCorners == OrderCorners

SpecCorners == InitCorners /\ [][NextCorners]_vars

\* the position in the input of the corner at position k of the output
InputPosition(k) == CHOOSE i \in 1..QuadLen : call.corners[i] = ret[k]

\* C13: for every convex quadrilateral given in any cyclic order the output
\* of order_corners is a cyclic traversal of it: the four corners, each
\* once, with entries 0 and 2 diagonally opposite.
C13_CyclicOrder ==
    call.op = "order_corners" =>
        /\ {ret[k] : k \in 1..QuadLen} = {call.corners[i] : i \in 1..QuadLen}
        /\ Abs(InputPosition(1) - InputPosition(3)) = 2

\* ------------------------------------------------------------ the ranking
\* longest card list of a ranked catalog
MaxRanked == 4

\* components with 10 and with 50 bits set
Ten16 == Rep("0", HexWidth - 3) \o <<"3", "f", "f">>

Fifty16 == Rep("0", 3) \o <<"3">> \o Rep("f", HexWidth - 4)

\* fingerprints at match distances 0, 10 and 50 from a flat image, and one
\* that is not hexadecimal
RankValues ==
    { StrVal(Join(Zero16, Zero16)),
      StrVal(Join(Ten16, Ten16)),
      StrVal(Join(Fifty16, Fifty16)),
      StrVal(Join(NonHex16, Zero16)) }

\* card lists of n cards over RankValues; the card at position i has number i
RankedLists(n) ==
    { [i \in 1..n |-> Card(i, TRUE, v[i])] : v \in [1..n -> RankValues] }

RankFiles ==
    { [kind |-> "ok", cards |-> cs] :
        cs \in UNION { RankedLists(n) : n \in 0..MaxRanked } }

RankImages == {"flat", "dot"}

NextRank ==
    \/ \E file \in RankFiles : LoadDatabase(file)
    \/ \E image \in RankImages : FindMatchingCard(image, DefaultThreshold)

SpecRank == Init /\ [][NextRank]_vars

\* C14: with threshold 24.0, whenever the catalog holds an entry at distance
\* 0 from the query (next to entries at distances such as 10 and 50), that
\* entry is returned with difference 0, confidence 1.0 and quality "High".
C14_ExactMatchWins ==
    (IsFind /\ call.threshold = DefaultThreshold
        /\ \E i \in 1..Len(cards) : Dist(i) = 0) =>
        /\ ~ret.none
        /\ Dist(ret.number) = 0
        /\ \A i \in 1..Len(cards) : Dist(i) = 0 => ret.number <= i
        /\ ret.difference = 0
        /\ ret.confidence = call.threshold
        /\ ret.match_quality = "High"

\* the entries at distances 10, 50 and 0, in that order: the third one is
\* returned and the one at distance 10 is ranked second
C14_Witness ==
    /\ IsFind /\ ~ret.none /\ Len(cards) = 3
    /\ Dist(1) = 100 /\ Dist(2) = 500 /\ Dist(3) = 0
    /\ ret.number = 3 /\ ret.confidence = DefaultThreshold
    /\ Len(ret.top) = 3 /\ ret.top[2].card = 1

\* the cards listed in the diagnostic ranking
Listed == {ret.top[k].card : k \in 1..Len(ret.top)}

\* C20: the diagnostic ranking lists at most 3 candidates, in ascending
\* order of distance; they are the comparable entries of smallest distance,
\* the first one is the entry returned, and equal distances keep catalog
\* order.
C20_RankingTopThree ==
    (IsFind /\ Len(cards) > 0 /\ Len(QueryHash) > 0) =>
        /\ Len(ret.top) = Min2(3, Cardinality(Usable))
        /\ Cardinality(Listed) = Len(ret.top)
        /\ \A k \in 1..Len(ret.top) :
              /\ ret.top[k].card \in Usable
              /\ ret.top[k].diff = Dist(ret.top[k].card)
        /\ \A k \in 1..(Len(ret.top) - 1) :
              \/ ret.top[k].diff < ret.top[k + 1].diff
              \/ /\ ret.top[k].diff = ret.top[k + 1].diff
                 /\ ret.top[k].card < ret.top[k + 1].card
        /\ \A j \in Usable \ Listed : \A k \in 1..Len(ret.top) :
              \/ ret.top[k].diff < Dist(j)
              \/ ret.top[k].diff = Dist(j) /\ ret.top[k].card < j
        /\ Usable # {} => (~ret.none /\ ret.top[1].card = ret.number)

\* four comparable entries, three listed, two of them at the same distance
C20_Witness ==
    /\ IsFind /\ ~ret.none
    /\ Cardinality(Usable) > 3 /\ Len(ret.top) = 3
    /\ ret.top[1].diff = ret.top[2].diff
    /\ ret.top[2].diff < ret.top[3].diff

\* a component of at most 64 bits
FitsWidth(c) == IsHex(c) /\ Len(c) <= HexWidth

\* a well-formed two-component fingerprint
WellFormedFingerprint(h) ==
    /\ h.str
    /\ Len(Split(h.chars)) = NumParts
    /\ \A k \in 1..NumParts : FitsWidth(Split(h.chars)[k])

\* the value of a component written on 64 binary digits
PaddedBits(c) == Rep("0", HashBits - 4 * Len(c)) \o HexToBits(c)

\* H: the number of the 64 bit positions where two components differ
DifferingBits(c1, c2) ==
    Cardinality({i \in 1..HashBits : PaddedBits(c1)[i] # PaddedBits(c2)[i]})

\* C17: for two well-formed two-component fingerprints hash_difference is
\* 0.6 * H(first components) + 0.4 * H(second components), H counting the
\* differing bits of the values padded to 64 bits; it lies in [0, 64] and is
\* 0 exactly when both components are bit-identical (distances in tenths).
C17_WeightedHamming ==
    (call.op = "hash_difference" /\ WellFormedFingerprint(call.h1)
        /\ WellFormedFingerprint(call.h2)) =>
        LET p1 == Split(call.h1.chars)
            p2 == Split(call.h2.chars)
        IN  /\ ret.difference = WeightAverage * DifferingBits(p1[1], p2[1])
                                + WeightDifference * DifferingBits(p1[2], p2[2])
            /\ ret.difference >= 0
            /\ ret.difference <= 10 * HashBits
            /\ ret.difference = 0 <=>
                  \A k \in 1..NumParts : PaddedBits(p1[k]) = PaddedBits(p2[k])

\* two well-formed fingerprints whose first components differ in more bits
\* than their second components were compared
C17_Witness ==
    /\ call.op = "hash_difference"
    /\ WellFormedFingerprint(call.h1) /\ WellFormedFingerprint(call.h2)
    /\ DifferingBits(Split(call.h1.chars)[1], Split(call.h2.chars)[1])
          > DifferingBits(Split(call.h1.chars)[2], Split(call.h2.chars)[2])
    /\ ret.difference > 0 /\ ret.difference # Inf

\* ------------------------------------------ catalogs with unusable entries
\* image_hash values of a catalog whose entries are valid or malformed: two
\* valid fingerprints, a non-hex component, an empty component, not a string
SkipValues ==
    { StrVal(Join(Zero16, Zero16)),
      StrVal(Join(Ones16, Zero16)),
      StrVal(Join(NonHex16, Zero16)),
      StrVal(Join(<< >>, Zero16)),
      NotAString }

\* card lists of n cards, with or without the image_hash key
SkipLists(n) ==
    { l \in { [i \in 1..n |-> Card(i, e.has_hash[i], e.image_hash[i])] :
                e \in [has_hash : [1..n -> BOOLEAN],
                       image_hash : [1..n -> SkipValues]] } :
        WellFormedList(l) }

SkipFiles ==
    { [kind |-> "ok", cards |-> cs] :
        cs \in UNION { SkipLists(n) : n \in 0..MaxCards } }

SkipImages == {"flat", "left_dark", "dot", "not_image"}

NextSkip ==
    \/ \E file \in SkipFiles : LoadDatabase(file)
    \/ \E image \in SkipImages : FindMatchingCard(image, DefaultThreshold)

SpecSkip == Init /\ [][NextSkip]_vars

\* the positions of the entries without the image_hash key
Absent == {i \in 1..Len(cards) : ~cards[i].has_hash}

\* the positions of the entries whose image_hash is malformed: not a string,
\* or a string of two components one of which is empty or not hexadecimal
Malformed ==
    {i \in 1..Len(cards) :
        /\ cards[i].has_hash
        /\ \/ ~cards[i].image_hash.str
           \/ /\ Len(Split(cards[i].image_hash.chars)) = NumParts
              /\ \E k \in 1..NumParts :
                    ~Parses(Split(cards[i].image_hash.chars)[k])}

\* the positions of the entries that carry a valid fingerprint
Valid ==
    {i \in 1..Len(cards) :
        cards[i].has_hash /\ ValidFingerprint(cards[i].image_hash)}

MaxBuilt == 2

\* cv2.imread(path): the pixel content of a readable image file, None for a
\* file that is not an image
ImRead(img_path) ==
    IF img_path = "not_image" THEN [read |-> FALSE, img |-> Pixels(img_path)]
    ELSE [read |-> TRUE, img |-> Pixels(img_path)]

\* PokemonTCGDatabase.compute_average_hash
db_compute_average_hash(image) ==
    IF ~image.ok THEN << >>
    ELSE LET flat == Flatten(image.g8, HASH_SIZE)
             total == SumSeq(flat)
             hash_str == [i \in 1..Len(flat) |->
                            IF flat[i] * Len(flat) > total THEN "1" ELSE "0"]
         IN  ZFill(Hex(IntOfBin(hash_str)), HexWidth)

\* PokemonTCGDatabase.compute_difference_hash
db_compute_difference_hash(image) ==
    IF ~image.ok THEN << >>
    ELSE LET hash_str == [i \in 1..(HASH_SIZE * HASH_SIZE) |->
                 LET r == ((i - 1) \div HASH_SIZE) + 1
                     c == ((i - 1) % HASH_SIZE) + 1
                 IN  IF image.g9[r, c + 1] > image.g9[r, c] THEN "1" ELSE "0"]
         IN  ZFill(Hex(IntOfBin(hash_str)), HexWidth)

\* the two components joined in the other order
db_compute_image_hash_Swapped(img_path) ==
    LET img == ImRead(img_path)
    IN  IF ~img.read THEN << >>
        ELSE LET avg_hash == db_compute_average_hash(img.img)
                 dhash == db_compute_difference_hash(img.img)
             IN  IF Len(avg_hash) = 0 \/ Len(dhash) = 0 THEN << >>
                 ELSE dhash \o <<":">> \o avg_hash

\* PokemonTCGDatabase.compute_image_hash: "<avg>:<dhash>" of the file's
\* pixels, None (the empty string here) when the file cannot be read
db_compute_image_hash(img_path) ==
    LET img == ImRead(img_path)
    IN  IF ~img.read THEN << >>
        ELSE LET avg_hash == db_compute_average_hash(img.img)
                 dhash == db_compute_difference_hash(img.img)
             IN  IF Len(avg_hash) = 0 \/ Len(dhash) = 0 THEN << >>
                 ELSE avg_hash \o <<":">> \o dhash

\* no image file carries the card's number
NoImage == ""

\* match_local_images: image_map[i] is the image file found for card number
\* i (NoImage when there is none); a card with an image gets local_image,
\* and image_hash when a hash could be computed
match_local_images(image_map) ==
    [i \in 1..Len(image_map) |->
        IF image_map[i] = NoImage
        THEN [number |-> i, local_image |-> NoImage, image_hash |-> << >>]
        ELSE [number |-> i, local_image |-> image_map[i],
              image_hash |-> db_compute_image_hash(image_map[i])]]

\* create_database: the card records written to pokemon_cards.json;
\* image_hash is written only when the card has one
create_database(built) ==
    [kind |-> "ok",
     cards |-> [i \in 1..Len(built) |->
                  [number |-> built[i].number,
                   has_hash |-> Len(built[i].image_hash) > 0,
                   image_hash |-> IF Len(built[i].image_hash) > 0
                                  THEN StrVal(built[i].image_hash)
                                  ELSE NotAString,
                   local_image |-> built[i].local_image]]]

\* the image files the builder may find for the cards of a set
ImageMaps ==
    UNION { [1..n -> ImageNames \cup {NoImage}] : n \in 0..MaxBuilt }

\* a run of the builder: the database file it writes is the value returned
BuildDatabase(image_map) ==
    /\ load_status = "new"
    /\ call.op = "none"
    /\ call' = [Idle EXCEPT !.op = "create_database"]
    /\ ret' = [none |-> FALSE,
               database |-> create_database(match_local_images(image_map))]
    /\ UNCHANGED <<cards, load_status, hashed>>
    /\ UNCHANGED appVars

\* the matcher is constructed on the file the builder wrote
LoadBuiltDatabase ==
    /\ call.op = "create_database"
    /\ LoadDatabase(ret.database)

NextBuild ==
    \/ \E image_map \in ImageMaps : BuildDatabase(image_map)
    \/ LoadBuiltDatabase
    \/ \E image \in ImageNames : FindMatchingCard(image, DefaultThreshold)

SpecBuild == Init /\ [][NextBuild]_vars

\* C16: the fingerprint the builder stores for a reference image is the
\* string the matcher's compute_image_hash emits for the same pixel content
\* (two components of 16 hex digits, same order, same separator), so every
\* built entry is comparable with the matcher and an image matched against
\* its own reference is at distance 0.
C16_BuilderMatchesMatcher ==
    /\ call.op = "create_database" =>
          \A i \in 1..Len(ret.database.cards) :
              LET card == ret.database.cards[i]
              IN  /\ card.has_hash =>
                        /\ card.image_hash
                              = StrVal(compute_image_hash(Pixels(card.local_image)))
                        /\ ValidFingerprint(card.image_hash)
                  /\ (card.local_image # NoImage /\ ImRead(card.local_image).read)
                        => card.has_hash
    /\ (IsFind /\ Len(QueryHash) > 0) =>
          \A i \in 1..Len(cards) :
              /\ cards[i].has_hash => Dist(i) # Inf
              /\ (cards[i].has_hash
                    /\ Pixels(cards[i].local_image) = Pixels(call.image))
                 => (Dist(i) = 0 /\ ~ret.none /\ ret.difference = 0)

\* a built catalog whose second entry is the reference of the queried image,
\* with set bits in both components, behind an entry at a larger distance
C16_Witness ==
    /\ IsFind /\ ~ret.none /\ ret.difference = 0 /\ ret.number = 2
    /\ cards[2].local_image = call.image
    /\ cards[1].has_hash
    /\ Split(QueryHash)[1] # Zero16 /\ Split(QueryHash)[2] # Zero16

\* C21: matching never mutates the catalog: a find_matching_card call,
\* whether it returns a match, finds none or fails, leaves the catalog with
\* the same entries, in the same order, with the same field values; once
\* loaded the catalog never changes.
C21_CatalogUnchangedByMatching ==
    [][ /\ call'.op = "find_matching_card" => cards' = cards
        /\ load_status # "new" => cards' = cards ]_vars

\* a match was returned from a catalog of two different entries
C21_Witness ==
    /\ IsFind /\ ~ret.none
    /\ Len(cards) = 2 /\ cards[1].image_hash # cards[2].image_hash

\* ------------------------------------------- the diagnostic callback
\* find_matching_card with its debug_log calls and its handlers.  A catalog
\* file is external input: load_database accepts any list under 'cards', so
\* an entry may lack the 'name' key.  The callback given to the constructor
\* may work, raise on every call, or raise on the first call only.
Loggers == {"ok", "raises", "raises_once"}

DiagCard(number, image_hash, has_name) ==
    [number |-> number, has_hash |-> TRUE, image_hash |-> image_hash,
     has_name |-> has_name]

\* an exception left the call
Raised == [raised |-> TRUE, result |-> NoMatch]

\* the call returned r
Returned(r) == [raised |-> FALSE, result |-> r]

\* the first entry whose comparison logs (its distance is infinite), 0 when
\* every comparison is silent
FirstUnusable(cs, card_hash) ==
    LET bad == {i \in 1..Len(cs) :
                  /\ cs[i].has_hash
                  /\ hash_difference(StrVal(card_hash), cs[i].image_hash) = Inf}
    IN  IF bad = {} THEN 0 ELSE CHOOSE i \in bad : \A j \in bad : i <= j

\* lines 152-209 with the callback.  A debug_log that raises inside the try
\* block is caught at line 205, whose handler logs again (lines 206, 208):
\* if that call raises too the exception leaves find_matching_card.
\* Inside hash_difference, a raise at line 115 or 127 is caught at line 146
\* and the handler's own log (147) decides; for an entry that is not a
\* string line 147 is the first log of the comparison.  Line 183 reads
\* card['name'] of each listed candidate: KeyError is caught at line 205.
Outcome(cs, card_hash, plain, logger) ==
    LET always == logger = "raises"
        first == logger # "ok"
        Handler == IF always THEN Raised ELSE Returned(NoMatch)
        u == FirstUnusable(cs, card_hash)
    IN  IF Len(cs) = 0 THEN (IF first THEN Handler ELSE Returned(NoMatch))
        ELSE IF Len(card_hash) = 0
             THEN (IF always THEN Raised ELSE Returned(NoMatch))
        ELSE IF first /\ u # 0 /\ (always \/ ~cs[u].image_hash.str) THEN Handler
        ELSE IF first /\ u = 0 THEN Handler
        ELSE IF \E k \in 1..Len(plain.top) : ~cs[plain.top[k].card].has_name
             THEN Returned(NoMatch)
        ELSE Returned(plain)

\* the fingerprint and the ranking are computed once per call
find_matching_card_logged(cs, image, threshold, logger) ==
    CHOOSE r \in { Outcome(cs, card_hash, plain, logger) :
                     card_hash \in {compute_image_hash(image)},
                     plain \in {find_matching_card(cs, image, threshold)} } : TRUE

DiagValues ==
    { StrVal(Join(Zero16, Zero16)),
      StrVal(Join(Ones16, Zero16)),
      StrVal(Join(NonHex16, Zero16)),
      NotAString }

DiagLists(n) ==
    { [i \in 1..n |-> DiagCard(i, e.image_hash[i], e.has_name[i])] :
        e \in [image_hash : [1..n -> DiagValues], has_name : [1..n -> BOOLEAN]] }

DiagFiles ==
    { [kind |-> "ok", cards |-> cs] :
        cs \in UNION { DiagLists(n) : n \in 0..MaxCards } }

DiagImages == {"flat", "left_dark", "not_image"}

\* a find_matching_card call while the callback behaves as logger
FindMatchingCardLogged(image, logger) ==
    /\ load_status # "new"
    /\ call' = [op |-> "find_matching_card", image |-> image,
                threshold |-> DefaultThreshold, logger |-> logger]
    /\ LET r == find_matching_card_logged(cards, Pixels(image),
                                          DefaultThreshold, logger)
       IN  ret' = [raised |-> r.raised,
                   none |-> r.result.none,
                   number |-> r.result.number,
                   confidence |-> r.result.confidence,
                   difference |-> r.result.difference,
                   match_quality |-> r.result.match_quality,
                   top |-> r.result.top]
    /\ UNCHANGED <<cards, load_status, hashed>>
    /\ UNCHANGED appVars

NextDiag ==
    \/ \E file \in DiagFiles : LoadDatabase(file)
    \/ \E image \in DiagImages, logger \in Loggers :
          FindMatchingCardLogged(image, logger)

SpecDiag == Init /\ [][NextDiag]_vars

\* C22: diagnostic reporting is decoupled from control flow: the value
\* returned depends only on the distances and the winning entry, so neither
\* the top-3 lines (which read the name of the other candidates) nor a
\* failing callback turns a match into a no-match, and no exception leaves
\* find_matching_card.
C22_DiagnosticsDecoupled ==
    IsFind =>
        /\ ~ret.raised
        /\ LET plain == find_matching_card(cards, Pixels(call.image),
                                           call.threshold)
           IN  (~plain.none /\ cards[plain.top[1].card].has_name) =>
                  /\ ~ret.none
                  /\ ret.number = plain.number
                  /\ ret.difference = plain.difference

\* ------------------------------------------------- the application
\* PokemonCardApp.handle_photo_click (src/pyscript/main.py): each click runs
\* the detector on the frame and, when a card was found, constructs a
\* CardMatcher (whose __init__ runs load_database) and asks it for a match.
MaxClicks == 2

\* the frame drawn from the video element
AppFrame == Frame("frame_a", 10, 10)

\* what findContours reports on a frame without and with a card
AppContours == { << >>, <<Contour(4, 30, 5, 7, Rect57(0, 0))>> }

\* pokemon_cards.json as deployed with the page
AppFiles ==
    { [kind |-> "ok", cards |-> cs] :
        cs \in UNION { RankedLists(n) : n \in 0..MaxCards } }

\* the file does not change during a run: a later load reads what the
\* first one read
SameFile(file) == loads = 0 \/ file.cards = cards

handle_photo_click(contours, image, file) ==
    LET d == detect_card(AppFrame, AppFrame.height, contours)
    IN  IF d.success /\ ~d.card.none
        THEN LET r == load_database(<< >>, file)
             IN  [card_found |-> TRUE, loaded |-> 1, cards |-> r.cards,
                  load_status |-> IF r.ok THEN "loaded" ELSE "failed",
                  match_result |-> find_matching_card(r.cards, Pixels(image),
                                                      DefaultThreshold)]
        ELSE [card_found |-> FALSE, loaded |-> 0, cards |-> cards,
              load_status |-> load_status, match_result |-> NoMatch]

HandlePhotoClick(contours, image, file) ==
    /\ loads < MaxClicks
    /\ SameFile(file)
    /\ LET r == handle_photo_click(contours, image, file)
       IN  /\ cards' = r.cards
           /\ load_status' = r.load_status
           /\ loads' = loads + r.loaded
           /\ ret' = r.match_result
           /\ call' = [op |-> "handle_photo_click", image |-> image,
                       threshold |-> DefaultThreshold,
                       card_found |-> r.card_found]
    /\ UNCHANGED <<hashed, active_stream, live_streams, handlers,
                   available_cameras, current_camera_index, downloads, awaiting>>

NextApp ==
    \E contours \in AppContours, image \in RankImages, file \in AppFiles :
        HandlePhotoClick(contours, image, file)

SpecApp == Init /\ [][NextApp]_vars

\* C23: the catalog is loaded once: over any sequence of capture requests
\* of one run, load_database is executed a single time before the first
\* match and never again, and every match consults that loaded catalog.
C23_CatalogLoadedOnce == loads <= 1

\* ------------------------------------------------------ the image scraper
\* download_cards (src/scraper.py).  asyncio.create_task schedules a
\* coroutine to run as soon as the event loop gets control; the loop runs
\* every scheduled task, in creation order, up to its first suspension
\* before it polls for completed I/O.  The source has MAX_CARD_NUMBER = 175.
MAX_CARD_NUMBER == 7

BatchSize == 5

CardNumbers == 1..MAX_CARD_NUMBER

\* chunks(tasks, 5): the number of the chunk that holds task i
BatchOf(i) == ((i - 1) \div BatchSize) + 1

NumBatches == BatchOf(MAX_CARD_NUMBER)

Scheduled == {i \in DOMAIN downloads : downloads[i] = "scheduled"}

InFlight == {i \in DOMAIN downloads : downloads[i] = "in_flight"}

\* lines 9-29: the directory and the client are set up, a task is created
\* for every card number, and download_cards suspends in
\* asyncio.gather(*batch) on the first chunk
DownloadCards ==
    /\ awaiting = None
    /\ downloads = << >>
    /\ downloads' = [i \in CardNumbers |-> "scheduled"]
    /\ awaiting' = 1
    /\ UNCHANGED <<cards, load_status, call, ret, hashed, loads, active_stream,
                   live_streams, handlers, available_cameras,
                   current_camera_index>>

\* the event loop starts task i: download_card runs up to
\* await client.get(url), the request is in flight
StartDownload(i) ==
    /\ awaiting # None
    /\ i \in Scheduled
    /\ \A j \in Scheduled : i <= j
    /\ downloads' = [downloads EXCEPT ![i] = "in_flight"]
    /\ UNCHANGED <<cards, load_status, call, ret, hashed, loads, active_stream,
                   live_streams, handlers, available_cameras,
                   current_camera_index, awaiting>>

\* the response (or an error) arrives and download_card runs to its end
FinishDownload(i) ==
    /\ Scheduled = {}
    /\ i \in InFlight
    /\ downloads' = [downloads EXCEPT ![i] = "done"]
    /\ UNCHANGED <<cards, load_status, call, ret, hashed, loads, active_stream,
                   live_streams, handlers, available_cameras,
                   current_camera_index, awaiting>>

\* lines 28-30: gather returns when every task of the chunk is done, the
\* one-second sleep passes and the next chunk is awaited
NextBatch ==
    /\ awaiting # None /\ awaiting <= NumBatches
    /\ \A i \in DOMAIN downloads : BatchOf(i) = awaiting => downloads[i] = "done"
    /\ awaiting' = awaiting + 1
    /\ UNCHANGED <<cards, load_status, call, ret, hashed, loads, active_stream,
                   live_streams, handlers, available_cameras,
                   current_camera_index, downloads>>

NextScraper ==
    \/ DownloadCards
    \/ \E i \in CardNumbers : StartDownload(i)
    \/ \E i \in CardNumbers : FinishDownload(i)
    \/ NextBatch

SpecScraper == Init /\ [][NextScraper]_vars

\* C24: download_cards downloads in batches of 5: at most 5 download_card
\* requests are in flight at any time, and no request of a later batch
\* starts before every request of the previous batch has completed.
C24_BatchesOfFive ==
    /\ Cardinality(InFlight) <= BatchSize
    /\ \A i \in DOMAIN downloads, j \in DOMAIN downloads :
          (BatchOf(i) < BatchOf(j) /\ downloads[j] # "scheduled")
             => downloads[i] = "done"

\* ------------------------------------------------------------ the camera
\* The camera handlers of PokemonCardApp (src/pyscript/main.py).  They are
\* coroutines on one event loop: a handler runs without interruption up to
\* an await that suspends (Device.load, list_devices), and any other handler
\* may run before it is resumed.  stop_camera contains no await, so
\* "await self.stop_camera()" does not suspend.
MaxHandlers == 2

MaxStreams == 3

MaxCameras == 2

Handler(fn, pc) == [fn |-> fn, pc |-> pc]

RemoveAt(seq, k) == SubSeq(seq, 1, k - 1) \o SubSeq(seq, k + 1, Len(seq))

\* the stream object a successful Device.load returns
NewStream == CHOOSE s \in 1..(MaxStreams + 1) : s \notin live_streams

\* stop_camera (lines 40-48): the fields after the call
stop_camera ==
    IF active_stream # None
    THEN [active_stream |-> None, live_streams |-> live_streams \ {active_stream}]
    ELSE [active_stream |-> active_stream, live_streams |-> live_streams]

\* start_camera up to its suspension (lines 52-60): the active stream, if
\* any, is stopped, then Device.load is awaited
start_camera == stop_camera

\* __init__ (lines 13-38): no stream, no camera list, and the task
\* start_camera() created at line 38, not yet started
InitCamera ==
    /\ cards = << >>
    /\ load_status = "new"
    /\ call = Idle
    /\ ret = NoRet
    /\ hashed = {}
    /\ loads = 0
    /\ active_stream = None
    /\ live_streams = {}
    /\ handlers = <<Handler("start_camera", "created")>>
    /\ available_cameras = 0
    /\ current_camera_index = 0
    /\ downloads = << >>
    /\ awaiting = None

\* the task created by __init__ gets the event loop
StartCameraTask(k) ==
    /\ k \in 1..Len(handlers)
    /\ handlers[k].pc = "created"
    /\ active_stream' = start_camera.active_stream
    /\ live_streams' = start_camera.live_streams
    /\ handlers' = [handlers EXCEPT ![k] = Handler("start_camera", "Device.load")]
    /\ UNCHANGED <<cards, load_status, call, ret, hashed, loads,
                   available_cameras, current_camera_index, downloads, awaiting>>

\* toggle_camera (lines 188-195) up to its end or its first suspension
ToggleCamera ==
    /\ Len(handlers) < MaxHandlers
    /\ IF active_stream # None
       THEN /\ active_stream' = stop_camera.active_stream
            /\ live_streams' = stop_camera.live_streams
            /\ UNCHANGED handlers
       ELSE /\ active_stream' = start_camera.active_stream
            /\ live_streams' = start_camera.live_streams
            /\ handlers' = Append(handlers, Handler("toggle_camera", "Device.load"))
    /\ UNCHANGED <<cards, load_status, call, ret, hashed, loads,
                   available_cameras, current_camera_index, downloads, awaiting>>

\* lines 204-210: with more than one camera the index advances and
\* start_camera runs up to Device.load
SwitchToNext(n, rest) ==
    IF n > 1
    THEN /\ current_camera_index' = (current_camera_index + 1) % n
         /\ active_stream' = start_camera.active_stream
         /\ live_streams' = start_camera.live_streams
         /\ handlers' = Append(rest, Handler("switch_camera", "Device.load"))
    ELSE /\ handlers' = rest
         /\ UNCHANGED <<current_camera_index, active_stream, live_streams>>

\* switch_camera (lines 197-212) up to its end or its first suspension
SwitchCamera ==
    /\ Len(handlers) < MaxHandlers
    /\ IF available_cameras = 0
       THEN /\ handlers' = Append(handlers, Handler("switch_camera", "list_devices"))
            /\ UNCHANGED <<current_camera_index, active_stream, live_streams>>
       ELSE SwitchToNext(available_cameras, handlers)
    /\ UNCHANGED <<cards, load_status, call, ret, hashed, loads,
                   available_cameras, downloads, awaiting>>

\* list_devices returns n video inputs to the suspended switch_camera
ListDevicesReturns(k, n) ==
    /\ k \in 1..Len(handlers)
    /\ handlers[k].pc = "list_devices"
    /\ available_cameras' = n
    /\ SwitchToNext(n, RemoveAt(handlers, k))
    /\ UNCHANGED <<cards, load_status, call, ret, hashed, loads, downloads,
                   awaiting>>

\* Device.load returns to the suspended handler k: with a stream, assigned
\* to active_stream at line 60, or with an exception, caught at line 65
DeviceLoadReturns(k, acquired) ==
    /\ k \in 1..Len(handlers)
    /\ handlers[k].pc = "Device.load"
    /\ IF acquired
       THEN /\ Cardinality(live_streams) < MaxStreams
            /\ live_streams' = live_streams \cup {NewStream}
            /\ active_stream' = NewStream
       ELSE UNCHANGED <<active_stream, live_streams>>
    /\ handlers' = RemoveAt(handlers, k)
    /\ UNCHANGED <<cards, load_status, call, ret, hashed, loads,
                   available_cameras, current_camera_index, downloads, awaiting>>

NextCamera ==
    \/ \E k \in 1..MaxHandlers : StartCameraTask(k)
    \/ ToggleCamera
    \/ SwitchCamera
    \/ \E k \in 1..MaxHandlers, n \in 0..MaxCameras : ListDevicesReturns(k, n)
    \/ \E k \in 1..MaxHandlers, acquired \in BOOLEAN : DeviceLoadReturns(k, acquired)

SpecCamera == InitCamera /\ [][NextCamera]_vars

\* C25: under every interleaving of the toggle_camera, switch_camera and
\* start_camera handlers at most one camera stream is live: every stream
\* acquired and not stopped is the one active_stream refers to.
C25_OnlyTheActiveStreamIsLive ==
    /\ Cardinality(live_streams) <= 1
    /\ \A s \in live_streams : s = active_stream

====
